---------------------------- MODULE Spec2Model ----------------------------
(***************************************************************************)
(* Model of the animal-rescue backend (src/app.py): a Flask service over   *)
(* an SQLite file holding two tables, ngos and reports.                    *)
(*                                                                         *)
(* Each HTTP handler is one atomic action.  Python values are modelled as  *)
(* follows: a form field is a string, or None when the key is absent; a    *)
(* float is a tagged record, finite (in units of 1e-4 degree for           *)
(* coordinates, centimetres for distances), nan or inf; an SQL NULL /      *)
(* Python None of a non-string column is the empty sequence and a present  *)
(* value x is <<x>>.                                                       *)
(***************************************************************************)
EXTENDS Integers, Sequences, FiniteSets, TLC

VARIABLES
    ngos,           \* table ngos, rows in rowid order
    reports,        \* table reports, rows in rowid order
    uploads,        \* files saved under UPLOAD_FOLDER
    notifications,  \* alerts emitted by send_notifications, in order
    call,           \* a direct call of find_nearest_ngo: arguments and result
    response        \* the last HTTP response, with the endpoint that gave it

vars == <<ngos, reports, uploads, notifications, call, response>>

---------------------------------------------------------------------------
(* Bounds of the model. *)

MaxReports == 2
MaxNgos == 3
MaxChanged == 1

---------------------------------------------------------------------------
(* Python and SQL values. *)

None == "None"
Null == << >>
Some(x) == <<x>>

Fin(v) == [k |-> "fin", v |-> v]
NaN == [k |-> "nan", v |-> 0]
Inf == [k |-> "inf", v |-> 0]

\* Python truthiness of a form value: None and "" are falsy.
Truthy(s) == s # None /\ s # ""

\* The decimal strings of the model and the float each one denotes, in 1e-4 degree.
Decimal == ("0" :> 0) @@ ("1" :> 10000) @@ ("28.60" :> 286000) @@ ("77.20" :> 772000)

\* float(s): ok is FALSE where Python raises ValueError.
ParseFloat(s) ==
    IF s \in DOMAIN Decimal THEN [ok |-> TRUE, val |-> Fin(Decimal[s])]
    ELSE IF s = "nan" THEN [ok |-> TRUE, val |-> NaN]
    ELSE IF s = "inf" THEN [ok |-> TRUE, val |-> Inf]
    ELSE [ok |-> FALSE, val |-> NaN]

---------------------------------------------------------------------------
(* allowed_file *)

ALLOWED_EXTENSIONS == {"png", "jpg", "jpeg", "gif", "webp"}

\* str.lower() on the strings of the model.
Lower(str) ==
    CASE str = "PNG" -> "png"
      [] str = "TRUE" -> "true"
      [] OTHER -> str

\* A filename is [stem, ext]; ext = "" stands for a name without a dot.
allowed_file(filename) == filename.ext # "" /\ Lower(filename.ext) \in ALLOWED_EXTENSIONS

---------------------------------------------------------------------------
(* calculate_distance *)

\* The haversine distance of src/app.py lines 32-39, in centimetres (floor), at
\* the coordinates of the model: <<lat1, lon1, lat2, lon2>> in 1e-4 degree.
Haversine ==
    <<0, 0, 286139, 772090>> :> 876137270 @@
    <<0, 0, 190760, 728777>> :> 821113556 @@
    <<0, 0, 130827, 802707>> :> 895403700 @@
    <<0, 0, 285355, 773910>> :> 877810851 @@
    <<0, 0, 185204, 738567>> :> 830779297 @@
    <<0, 0, 0, 10000>> :> 11119492 @@
    <<0, 0, 0, -10000>> :> 11119492 @@
    <<0, 0, 10000, 0>> :> 11119492 @@
    <<10000, 0, 286139, 772090>> :> 870723451 @@
    <<10000, 0, 190760, 728777>> :> 817355119 @@
    <<10000, 0, 130827, 802707>> :> 892867388 @@
    <<10000, 0, 285355, 773910>> :> 872413276 @@
    <<10000, 0, 185204, 738567>> :> 827141581 @@
    <<10000, 0, 0, 10000>> :> 15724938 @@
    <<10000, 0, 0, -10000>> :> 15724938 @@
    <<10000, 0, 10000, 0>> :> 0 @@
    <<286000, 772000, 286139, 772090>> :> 177787 @@
    <<286000, 772000, 190760, 728777>> :> 114632725 @@
    <<286000, 772000, 130827, 802707>> :> 175444865 @@
    <<286000, 772000, 285355, 773910>> :> 1998387 @@
    <<286000, 772000, 185204, 738567>> :> 117125591 @@
    <<286000, 772000, 0, 10000>> :> 866332437 @@
    <<286000, 772000, 0, -10000>> :> 885743167 @@
    <<286000, 772000, 10000, 0>> :> 870621654

\* math.sin / math.cos of an infinity raise ValueError (math domain error); a nan
\* propagates to the result.  The directory's coordinates are finite.
calculate_distance(lat1, lon1, lat2, lon2) ==
    IF lat1.k = "inf" \/ lon1.k = "inf" THEN [raised |-> TRUE, val |-> NaN]
    ELSE IF lat1.k = "nan" \/ lon1.k = "nan" THEN [raised |-> FALSE, val |-> NaN]
    ELSE [raised |-> FALSE, val |-> Fin(Haversine[<<lat1.v, lon1.v, lat2, lon2>>])]

\* round(distance, 2): kilometres to two decimals, in units of 0.01 km.
Round2(cm) == (cm + 500) \div 1000

---------------------------------------------------------------------------
(* find_nearest_ngo *)

\* The comparison of line 61 with <= in place of <: the last of the rows at the
\* minimum would be kept.
CloserOrEqual(distance, min_distance) ==
    /\ distance.k = "fin"
    /\ min_distance.k = "inf" \/ distance.v <= min_distance.v

\* `distance < min_distance` on floats (line 61): false whenever distance is nan.
Closer(distance, min_distance) ==
    /\ distance.k = "fin"
    /\ min_distance.k = "inf" \/ distance.v < min_distance.v

NearestDict(ngo, distance) ==
    [id |-> ngo.id, name |-> ngo.name, phone |-> ngo.phone, email |-> ngo.email,
     whatsapp |-> ngo.whatsapp, distance |-> Round2(distance.v)]

\* The loop of lines 58-70 from row i on; acc is [raised, nearest, min_distance].
RECURSIVE Scan(_, _, _, _, _)
Scan(rows, i, latitude, longitude, acc) ==
    IF i > Len(rows) \/ acc.raised THEN acc
    ELSE LET ngo == rows[i]
             d == calculate_distance(latitude, longitude, ngo.latitude, ngo.longitude)
         IN  IF d.raised THEN [acc EXCEPT !.raised = TRUE]
             ELSE IF Closer(d.val, acc.min_distance)
                  THEN Scan(rows, i + 1, latitude, longitude,
                            [raised |-> FALSE, nearest |-> Some(NearestDict(ngo, d.val)),
                             min_distance |-> d.val])
                  ELSE Scan(rows, i + 1, latitude, longitude, acc)

\* find_nearest_ngo without the early return of lines 51-53 and with the first
\* sample responder as its fallback.
FindNearestOrDefault(rows, latitude, longitude) ==
    LET acc == Scan(rows, 1, latitude, longitude,
                    [raised |-> FALSE, nearest |-> Null, min_distance |-> Inf])
    IN  IF acc.raised THEN [raised |-> TRUE, value |-> Null]
        ELSE IF acc.nearest = Null
        THEN [raised |-> FALSE,
              value |-> Some([id |-> 1, name |-> "Animal Aid Foundation", phone |-> "9876543210",
                              email |-> "contact@animalaid.org", whatsapp |-> "9876543210",
                              distance |-> 0])]
        ELSE [raised |-> FALSE, value |-> acc.nearest]

\* [raised, value]: value is Null for None, <<dict>> for a responder.  With a
\* non-empty table and no row selected, line 72 subscripts None and raises.
find_nearest_ngo(rows, latitude, longitude) ==
    IF rows = << >> THEN [raised |-> FALSE, value |-> Null]
    ELSE LET acc == Scan(rows, 1, latitude, longitude,
                         [raised |-> FALSE, nearest |-> Null, min_distance |-> Inf])
         IN  IF acc.raised \/ acc.nearest = Null
             THEN [raised |-> TRUE, value |-> Null]
             ELSE [raised |-> FALSE, value |-> acc.nearest]

---------------------------------------------------------------------------
(* init_db *)

NgoRow(id, name, phone, email, latitude, longitude, address) ==
    [id |-> id, name |-> name, phone |-> phone, email |-> email, whatsapp |-> phone,
     latitude |-> latitude, longitude |-> longitude, address |-> address]

\* sample_ngos, inserted into the empty table of a fresh database.
SampleNgos ==
    << NgoRow(1, "Animal Aid Foundation", "9876543210", "contact@animalaid.org",
              286139, 772090, "Delhi, India"),
       NgoRow(2, "PFA India", "9876543211", "help@pfa.org",
              190760, 728777, "Mumbai, India"),
       NgoRow(3, "Blue Cross of India", "9876543212", "info@bluecross.org.in",
              130827, 802707, "Chennai, India"),
       NgoRow(4, "Wildlife SOS", "9876543213", "rescue@wildlifesos.org",
              285355, 773910, "Noida, India"),
       NgoRow(5, "SPCA India", "9876543214", "contact@spcaindia.org",
              185204, 738567, "Pune, India") >>

\* init_db on a database whose ngos table holds `rows`: the table afterwards.
InitDb(rows) == IF Len(rows) = 0 THEN SampleNgos ELSE rows

---------------------------------------------------------------------------
(* Routing: the rules the @app.route decorators register. *)

\* A rule is [methods, prefix, arg, suffix, endpoint]; arg is the converter of the
\* variable part ("" for none).
url_map ==
    { [methods |-> {"GET"}, prefix |-> "/", arg |-> "", suffix |-> "",
       endpoint |-> "index"],
      [methods |-> {"GET"}, prefix |-> "/api/reports", arg |-> "", suffix |-> "",
       endpoint |-> "get_reports"],
      [methods |-> {"POST"}, prefix |-> "/api/reports", arg |-> "", suffix |-> "",
       endpoint |-> "create_report"],
      [methods |-> {"PATCH"}, prefix |-> "/api/reports/", arg |-> "int", suffix |-> "/status",
       endpoint |-> "update_status"],
      [methods |-> {"GET"}, prefix |-> "/uploads/", arg |-> "string", suffix |-> "",
       endpoint |-> "uploaded_file"],
      [methods |-> {"GET"}, prefix |-> "/api/ngos", arg |-> "", suffix |-> "",
       endpoint |-> "get_ngos"] }

\* A request line is [method, prefix, arg, suffix] with the same reading.
Matches(rule, req) ==
    rule.prefix = req.prefix /\ rule.arg = req.arg /\ rule.suffix = req.suffix

\* The endpoint Flask dispatches to, or the 404 / 405 it answers itself.
Dispatch(req) ==
    LET hits == {rule \in url_map : Matches(rule, req)}
        served == {rule \in hits : req.method \in rule.methods}
    IN  IF hits = {} THEN "404"
        ELSE IF served = {} THEN "405"
        ELSE (CHOOSE rule \in served : TRUE).endpoint

ListRequest == [method |-> "GET", prefix |-> "/api/reports", arg |-> "", suffix |-> ""]
CreateRequest == [method |-> "POST", prefix |-> "/api/reports", arg |-> "", suffix |-> ""]
StatusRequest == [method |-> "PATCH", prefix |-> "/api/reports/", arg |-> "int", suffix |-> "/status"]
DetailRequest == [method |-> "GET", prefix |-> "/api/reports/", arg |-> "int", suffix |-> "/details"]

---------------------------------------------------------------------------
(* The inputs of the model. *)

\* A complete form, and what each field may hold instead.
CompleteForm ==
    [description |-> "dog hit by a car", reporter_name |-> "Asha",
     reporter_phone |-> "9810000000", latitude |-> "28.60", longitude |-> "77.20"]

FieldValues ==
    [description : {None, "", "dog hit by a car"},
     reporter_name : {None, "Asha"},
     reporter_phone : {"", "9810000000"},
     latitude : {None, "abc", "nan", "inf", "28.60"},
     longitude : {"", "abc", "77.20"}]

ChangedFields(form) == {f \in DOMAIN CompleteForm : form[f] # CompleteForm[f]}

\* The forms that differ from the complete one in at most MaxChanged fields
\* (written as an image so that the set is enumerated once).
Forms ==
    {form : form \in {g \in FieldValues : Cardinality(ChangedFields(g)) <= MaxChanged}}

NoPhoto == [stem |-> "", ext |-> ""]
\* No photo, a file of a type that is not allowed, and an image the handler saves.
Photos == {NoPhoto, [stem |-> "dog", ext |-> "exe"], [stem |-> "dog", ext |-> "PNG"]}

\* The values of the onlyOpen query parameter; None when it is absent.
OnlyOpenArgs == {None, "true", "TRUE", "false", "1"}

\* The "status" of a PATCH body; None when the key is absent.
StatusInputs == {None, "PENDING", "ON_THE_WAY", "RESOLVED", "resolved", "DONE"}

\* The body of a PATCH: <<s>> for a JSON object whose "status" is s, << >> for a
\* body that is no JSON object.
JsonBody(s) == <<s>>
NoJsonObject == << >>
Bodies == {NoJsonObject} \cup {JsonBody(s) : s \in StatusInputs}

ReportIds == 1 .. (MaxReports + 1)

NoCall == [state |-> "none", latitude |-> NaN, longitude |-> NaN,
           result |-> [raised |-> FALSE, value |-> Null]]

NoResponse == [op |-> "none", code |-> 0, body |-> << >>]

---------------------------------------------------------------------------
(* The state after the module is imported: init_db has run (line 176). *)

Init ==
    /\ ngos = InitDb(<< >>)
    /\ reports = << >>
    /\ uploads = {}
    /\ notifications = << >>
    /\ call = NoCall
    /\ response = NoResponse

---------------------------------------------------------------------------
(* create_report *)

\* Lines 224-234: the 400 message, or "" when the form passes.
Validation(form) ==
    IF ~(Truthy(form.description) /\ Truthy(form.reporter_name) /\ Truthy(form.reporter_phone))
    THEN "Missing required fields"
    ELSE IF ~Truthy(form.latitude) \/ ~Truthy(form.longitude)
    THEN "Location is mandatory!"
    ELSE IF ~ParseFloat(form.latitude).ok \/ ~ParseFloat(form.longitude).ok
    THEN "Invalid coordinates"
    ELSE ""

\* The clock.  A run of the model falls within one instant: created_at, which
\* CURRENT_TIMESTAMP gives to the second, is the same for every row, and that leaves
\* ORDER BY created_at free to return the rows in any order, which covers every
\* order that distinct timestamps would force.  The name of a saved file carries
\* the same reading, so a second upload of a file overwrites the first.
Now == 0

\* Lines 237-246: [saved, image_path]; the file name carries the time of the upload.
ImageUpload(photo, now) ==
    IF photo # NoPhoto /\ photo.stem # "" /\ allowed_file(photo)
    THEN [saved |-> {<<now, photo>>}, image_path |-> Some(<<now, photo>>)]
    ELSE [saved |-> {}, image_path |-> Null]

\* Lines 249-257: an exception of find_nearest_ngo is caught and leaves None.
AutoAssign(rows, lat_float, lon_float) ==
    LET found == find_nearest_ngo(rows, lat_float, lon_float)
    IN  IF found.raised THEN Null ELSE found.value

\* The id AUTOINCREMENT gives the next row: no row is ever deleted.
AutoIncrement(rows) == IF rows = << >> THEN 1 ELSE rows[Len(rows)].id + 1

\* The stored row under a column default other than 'PENDING'.
WrongDefaultRow(id, form, lat_float, lon_float, image_path, assigned_ngo_id, now) ==
    [id |-> id, description |-> form.description, reporter_name |-> form.reporter_name,
     reporter_phone |-> form.reporter_phone, latitude |-> lat_float, longitude |-> lon_float,
     image_path |-> image_path, status |-> "NEW", assigned_ngo_id |-> assigned_ngo_id,
     created_at |-> now]

\* The row the INSERT of lines 263-267 stores; status takes the column default
\* (line 143).
InsertedRow(id, form, lat_float, lon_float, image_path, assigned_ngo_id, now) ==
    [id |-> id, description |-> form.description, reporter_name |-> form.reporter_name,
     reporter_phone |-> form.reporter_phone, latitude |-> lat_float, longitude |-> lon_float,
     image_path |-> image_path, status |-> "PENDING", assigned_ngo_id |-> assigned_ngo_id,
     created_at |-> now]

\* An alert that names the row before the one just stored.
AlertForPreviousRow(ngo, report_id, description, reporter_phone, latitude, longitude) ==
    [ngo |-> ngo, report_id |-> report_id - 1, description |-> description,
     reporter_phone |-> reporter_phone, latitude |-> latitude, longitude |-> longitude]

\* The alert send_notifications prints (lines 80-102).
Alert(ngo, report_id, description, reporter_phone, latitude, longitude) ==
    [ngo |-> ngo, report_id |-> report_id, description |-> description,
     reporter_phone |-> reporter_phone, latitude |-> latitude, longitude |-> longitude]

\* Lines 279-289.
CreatedBody(report_id, nearest_ngo) ==
    LET base == [message |-> "Report created! NGO notified.", id |-> report_id,
                 status |-> "PENDING"]
    IN  IF nearest_ngo # Null
        THEN base @@ [assigned_ngo |-> nearest_ngo[1].name,
                      distance_km |-> nearest_ngo[1].distance]
        ELSE base

Respond(op, code, body) == response' = [op |-> op, code |-> code, body |-> body]

\* The handler on one request.  notify_ok is
\* whether send_notifications returns: it runs inside the handler's try block, so
\* an exception it lets out (a print on a closed stream today, a channel call
\* once lines 105-107 are enabled) ends in the handler's except clause.
create_report(form, photo, notify_ok) ==
    /\ Dispatch(CreateRequest) = "create_report"
    /\ UNCHANGED <<ngos, call>>
    /\ IF Validation(form) # ""
       THEN /\ Respond("create_report", 400, [error |-> Validation(form)])
            /\ UNCHANGED <<reports, uploads, notifications>>
       ELSE LET lat_float == ParseFloat(form.latitude).val
                lon_float == ParseFloat(form.longitude).val
                image == ImageUpload(photo, Now)
                nearest_ngo == AutoAssign(ngos, lat_float, lon_float)
                assigned_ngo_id == IF nearest_ngo # Null THEN Some(nearest_ngo[1].id) ELSE Null
                report_id == AutoIncrement(reports)
            IN  /\ uploads' = uploads \cup image.saved
                /\ IF lat_float.k = "nan" \/ lon_float.k = "nan"
                   THEN \* sqlite3 binds a nan as NULL: the NOT NULL column rejects it
                        /\ Respond("create_report", 500,
                                   [error |-> "NOT NULL constraint failed: reports.latitude"])
                        /\ UNCHANGED <<reports, notifications>>
                   ELSE /\ Len(reports) < MaxReports
                        /\ reports' = Append(reports,
                               InsertedRow(report_id, form, lat_float, lon_float,
                                           image.image_path, assigned_ngo_id, Now))
                        /\ IF nearest_ngo # Null /\ ~notify_ok
                           THEN /\ Respond("create_report", 500, [error |-> "notification failed"])
                                /\ UNCHANGED notifications
                           ELSE /\ notifications' =
                                      IF nearest_ngo # Null
                                      THEN Append(notifications,
                                               Alert(nearest_ngo[1], report_id, form.description,
                                                     form.reporter_phone, lat_float, lon_float))
                                      ELSE notifications
                                /\ Respond("create_report", 201, CreatedBody(report_id, nearest_ngo))

\* The photo and the outcome of the notification are read only once validation
\* has passed.
CreateReport ==
    \E form \in Forms :
        IF Validation(form) # ""
        THEN create_report(form, NoPhoto, TRUE)
        ELSE \E photo \in Photos, notify_ok \in BOOLEAN : create_report(form, photo, notify_ok)

---------------------------------------------------------------------------
(* update_status *)

ValidStatuses == {"PENDING", "ON_THE_WAY", "RESOLVED"}

\* The UPDATE without its WHERE clause.
UpdateEveryRow(rows, new_status, report_id) ==
    [i \in 1 .. Len(rows) |-> [rows[i] EXCEPT !.status = new_status]]

\* UPDATE reports SET status = ? WHERE id = ? (line 308).
SqlUpdateStatus(rows, new_status, report_id) ==
    [i \in 1 .. Len(rows) |->
        IF rows[i].id = report_id THEN [rows[i] EXCEPT !.status = new_status] ELSE rows[i]]

\* The handler on one request.  Without a JSON object, line 300 or line 301 raises
\* and the except clause answers.
update_status(report_id, data) ==
    /\ Dispatch(StatusRequest) = "update_status"
    /\ UNCHANGED <<ngos, uploads, notifications, call>>
    /\ IF data = NoJsonObject
       THEN /\ Respond("update_status", 500, [error |-> "no JSON object"])
            /\ UNCHANGED reports
       ELSE LET new_status == data[1]
            IN  IF new_status \notin ValidStatuses
                THEN /\ Respond("update_status", 400, [error |-> "Invalid status"])
                     /\ UNCHANGED reports
                ELSE /\ reports' = SqlUpdateStatus(reports, new_status, report_id)
                     /\ Respond("update_status", 200,
                                [message |-> "Updated", id |-> report_id,
                                 status |-> new_status])

UpdateStatus ==
    \E report_id \in ReportIds, data \in Bodies : update_status(report_id, data)

---------------------------------------------------------------------------
(* get_reports *)

\* The columns both SELECTs of get_reports name.
ListRow(row) ==
    [id |-> row.id, description |-> row.description, image_path |-> row.image_path,
     status |-> row.status, created_at |-> row.created_at]

\* The SELECT without its WHERE clause.
SelectAll(rows, only_open) == {i \in 1 .. Len(rows) : TRUE}

\* The indices of the rows selected: WHERE status != 'RESOLVED' when only_open
\* (lines 190-201).
Selected(rows, only_open) ==
    {i \in 1 .. Len(rows) : ~only_open \/ rows[i].status # "RESOLVED"}

\* ORDER BY created_at DESC: every order of the selected rows that is descending
\* in created_at (SQL leaves the order of equal keys open).
Orderings(rows, only_open) ==
    LET sel == Selected(rows, only_open)
        n == Cardinality(sel)
    IN  { o \in [1 .. n -> sel] :
            /\ \A i, j \in 1 .. n : i # j => o[i] # o[j]
            /\ \A i, j \in 1 .. n : i < j => rows[o[i]].created_at >= rows[o[j]].created_at }

\* Line 184: request.args.get('onlyOpen', 'false').lower() == 'true'.
OnlyOpen(arg) == Lower(IF arg = None THEN "false" ELSE arg) = "true"

get_reports(arg) ==
    /\ Dispatch(ListRequest) = "get_reports"
    /\ \E o \in Orderings(reports, OnlyOpen(arg)) :
          Respond("get_reports", 200, [i \in 1 .. Len(o) |-> ListRow(reports[o[i]])])
    /\ UNCHANGED <<ngos, reports, uploads, notifications, call>>

GetReports == \E arg \in OnlyOpenArgs : get_reports(arg)

---------------------------------------------------------------------------
(* A request no rule of url_map matches: Flask answers 404 itself. *)

get_details(report_id) ==
    /\ Dispatch(DetailRequest) = "404"
    /\ Respond("details", 404, [url |-> <<DetailRequest.prefix, report_id, DetailRequest.suffix>>])
    /\ UNCHANGED <<ngos, reports, uploads, notifications, call>>

GetDetails == \E report_id \in ReportIds : get_details(report_id)

---------------------------------------------------------------------------
(* The environment. *)

\* The responders are removed from the database file out of band; init_db seeds
\* the table only when the process starts.
ClearNgos ==
    /\ ngos # << >>
    /\ ngos' = << >>
    /\ UNCHANGED <<reports, uploads, notifications, call, response>>

---------------------------------------------------------------------------
(* find_nearest_ngo called on its own, on every directory and target of the     *)
(* bounds below.                                                               *)

Places == { <<286139, 772090>>, <<190760, 728777>>, <<0, 10000>>, <<0, -10000>>, <<10000, 0>> }

Targets == { <<"0", "0">>, <<"1", "0">>, <<"28.60", "77.20">> }

\* The tables of n responders, with the ids 1 .. n in rowid order.
Directories(n) ==
    { [i \in 1 .. n |-> NgoRow(i, <<"NGO", i>>, <<"phone", i>>, <<"mail", i>>,
                               at[i][1], at[i][2], "")] : at \in [1 .. n -> Places] }

InitNearest ==
    /\ ngos \in UNION { Directories(n) : n \in 0 .. MaxNgos }
    /\ \E t \in Targets :
          call = [state |-> "pending", latitude |-> ParseFloat(t[1]).val,
                  longitude |-> ParseFloat(t[2]).val,
                  result |-> [raised |-> FALSE, value |-> Null]]
    /\ reports = << >>
    /\ uploads = {}
    /\ notifications = << >>
    /\ response = NoResponse

FindNearest ==
    /\ call.state = "pending"
    /\ call' = [call EXCEPT !.state = "returned",
                            !.result = find_nearest_ngo(ngos, call.latitude, call.longitude)]
    /\ UNCHANGED <<ngos, reports, uploads, notifications, response>>

NextNearest == FindNearest

SpecNearest == InitNearest /\ [][NextNearest]_vars

---------------------------------------------------------------------------

Next ==
    \/ CreateReport
    \/ UpdateStatus
    \/ GetReports
    \/ GetDetails
    \/ ClearNgos

Spec == Init /\ [][Next]_vars

---------------------------------------------------------------------------
(* Properties. *)

HasId(rows, id) == \E i \in 1 .. Len(rows) : rows[i].id = id

\* The distance from the target of `call` to row i of the directory.
CallDistance(i) ==
    Haversine[<<call.latitude.v, call.longitude.v, ngos[i].latitude, ngos[i].longitude>>]

\* C1: find_nearest_ngo returns None exactly when the directory is empty;
\* otherwise it returns a responder at minimal distance from the target, and
\* among the responders at that distance the one with the lowest id.
C1_NearestIsMinimalLowestId ==
    call.state = "returned" =>
        /\ ~call.result.raised
        /\ (call.result.value = Null) <=> (ngos = << >>)
        /\ ngos # << >> =>
              \E i \in 1 .. Len(ngos) :
                  /\ call.result.value[1].id = ngos[i].id
                  /\ \A j \in 1 .. Len(ngos) : CallDistance(i) <= CallDistance(j)
                  /\ \A j \in 1 .. Len(ngos) :
                        CallDistance(j) = CallDistance(i) => ngos[i].id <= ngos[j].id

\* Two responders tie at the minimum, neither is the first row, and the lower
\* id of the two came back.
C1_Witness ==
    /\ call.state = "returned"
    /\ Len(ngos) >= 3
    /\ \E i, j \in 2 .. Len(ngos) :
          /\ i < j
          /\ CallDistance(i) = CallDistance(j)
          /\ CallDistance(i) < CallDistance(1)
          /\ call.result.value = Some(NearestDict(ngos[i], Fin(CallDistance(i))))

\* float() rejects the string: the handler's own test of a coordinate.
FloatRaises(s) == ~ParseFloat(s).ok

\* The string does not denote a number: float() rejects it, or gives a nan.
NotANumber(s) == FloatRaises(s) \/ ParseFloat(s).val.k = "nan"

\* A text field or a coordinate is missing or empty.
Incomplete(form) ==
    \/ form.description \in {None, ""}
    \/ form.reporter_name \in {None, ""}
    \/ form.reporter_phone \in {None, ""}
    \/ form.latitude \in {None, ""}
    \/ form.longitude \in {None, ""}

\* C2: a submission with a missing or empty text field, or with a coordinate
\* that is missing or does not parse as a number, is answered 400 and leaves the
\* stored reports as they were.
C2_InvalidSubmissionRejected ==
    [][response'.op = "create_report" =>
          \A form \in Forms, photo \in Photos, notify_ok \in BOOLEAN :
              (/\ Incomplete(form) \/ NotANumber(form.latitude) \/ NotANumber(form.longitude)
               /\ create_report(form, photo, notify_ok)) =>
                  /\ response'.code = 400
                  /\ reports' = reports]_vars

\* The part of C2 the handler keeps: a submission that is incomplete or has a
\* coordinate float() rejects is answered 400 and changes nothing.
RejectedBeforeAnyWrite ==
    [][response'.op = "create_report" =>
          \A form \in Forms, photo \in Photos, notify_ok \in BOOLEAN :
              (/\ Incomplete(form) \/ FloatRaises(form.latitude) \/ FloatRaises(form.longitude)
               /\ create_report(form, photo, notify_ok)) =>
                  /\ response'.code = 400
                  /\ reports' = reports
                  /\ uploads' = uploads
                  /\ notifications' = notifications]_vars

\* C3: update_status with a valid status and an id no stored report has answers
\* 404 and leaves the stored reports unchanged.
C3_UnknownIdIsNotFound ==
    [][\A report_id \in ReportIds, new_status \in ValidStatuses :
          (update_status(report_id, JsonBody(new_status)) /\ ~HasId(reports, report_id)) =>
              /\ response'.code = 404
              /\ reports' = reports]_vars

\* C4: whenever create_report has stored a row, its response is 201 and carries
\* the id of that row, whatever became of the assignment and of the notification.
C4_StoredReportAnswered201 ==
    [][Len(reports') > Len(reports) =>
          /\ response'.op = "create_report"
          /\ response'.code = 201
          /\ response'.body.id = reports'[Len(reports')].id]_vars

\* The submissions C5 is about: every text field present, both coordinates
\* finite numbers.
Acceptable(form) ==
    /\ Truthy(form.description) /\ Truthy(form.reporter_name) /\ Truthy(form.reporter_phone)
    /\ Truthy(form.latitude) /\ Truthy(form.longitude)
    /\ ParseFloat(form.latitude).ok /\ ParseFloat(form.latitude).val.k = "fin"
    /\ ParseFloat(form.longitude).ok /\ ParseFloat(form.longitude).val.k = "fin"

\* C5: with an empty directory a valid submission stores one new report, PENDING
\* and unassigned, is answered 201 without assigned_ngo and distance_km, and
\* sends no notification.
C5_EmptyDirectoryStillCreates ==
    [][(ngos = << >> /\ response'.op = "create_report") =>
          \A form \in Forms, photo \in Photos, notify_ok \in BOOLEAN :
              (Acceptable(form) /\ create_report(form, photo, notify_ok)) =>
                  /\ Len(reports') = Len(reports) + 1
                  /\ SubSeq(reports', 1, Len(reports)) = reports
                  /\ reports'[Len(reports')].status = "PENDING"
                  /\ reports'[Len(reports')].assigned_ngo_id = Null
                  /\ reports'[Len(reports')].description = form.description
                  /\ response'.code = 201
                  /\ response'.body.id = reports'[Len(reports')].id
                  /\ "assigned_ngo" \notin DOMAIN response'.body
                  /\ "distance_km" \notin DOMAIN response'.body
                  /\ notifications' = notifications]_vars

\* A report with finite coordinates was just created against the empty directory.
C5_Witness ==
    /\ ngos = << >>
    /\ response.op = "create_report"
    /\ response.code = 201
    /\ Len(reports) >= 1
    /\ reports[Len(reports)].id = response.body.id
    /\ reports[Len(reports)].latitude.k = "fin"
    /\ reports[Len(reports)].assigned_ngo_id = Null

\* C6: the list view never carries reporter_name or reporter_phone, and the
\* detail view of a stored report answers 200 with both of them, that of an
\* unknown id 404.
C6_PrivacyBoundary ==
    [][/\ \A arg \in OnlyOpenArgs :
             get_reports(arg) =>
                 \A k \in 1 .. Len(response'.body) :
                     /\ "reporter_name" \notin DOMAIN response'.body[k]
                     /\ "reporter_phone" \notin DOMAIN response'.body[k]
       /\ \A report_id \in ReportIds :
             get_details(report_id) =>
                 IF HasId(reports, report_id)
                 THEN /\ response'.code = 200
                      /\ "reporter_name" \in DOMAIN response'.body
                      /\ "reporter_phone" \in DOMAIN response'.body
                 ELSE response'.code = 404]_vars

\* The ids a list response carries.
ListedIds(body) == {body[k].id : k \in 1 .. Len(body)}

\* C7: the list with onlyOpen holds exactly the stored reports whose status is
\* not RESOLVED, the list without it every stored report, each once and with
\* its current status.
C7_ListShowsOpenReports ==
    [][\A arg \in OnlyOpenArgs :
          get_reports(arg) =>
              /\ response'.code = 200
              /\ ListedIds(response'.body) =
                    {reports[i].id : i \in {k \in 1 .. Len(reports) :
                                               \/ arg \notin {"true", "TRUE"}
                                               \/ reports[k].status # "RESOLVED"}}
              /\ Cardinality(ListedIds(response'.body)) = Len(response'.body)
              /\ \A k \in 1 .. Len(response'.body) :
                    \E i \in 1 .. Len(reports) :
                        /\ reports[i].id = response'.body[k].id
                        /\ reports[i].status = response'.body[k].status]_vars

\* A list answered with one open report while another one is RESOLVED.
C7_Witness ==
    /\ response.op = "get_reports"
    /\ Len(reports) = 2
    /\ Len(response.body) = 1
    /\ \E i \in 1 .. 2 : reports[i].status = "RESOLVED" /\ reports[i].id # response.body[1].id

\* C8: every stored status is PENDING, ON_THE_WAY or RESOLVED; a new row is
\* PENDING; update_status with any other value answers 400 and leaves the
\* stored reports unchanged.
C8_StatusStaysInDomain ==
    [][/\ \A i \in 1 .. Len(reports') : reports'[i].status \in ValidStatuses
       /\ \A i \in (Len(reports) + 1) .. Len(reports') : reports'[i].status = "PENDING"
       /\ \A report_id \in ReportIds, new_status \in StatusInputs \ ValidStatuses :
             update_status(report_id, JsonBody(new_status)) =>
                 /\ response'.code = 400
                 /\ reports' = reports]_vars

\* An invalid status was refused for a report that has left PENDING.
C8_Witness ==
    /\ response.op = "update_status"
    /\ response.code = 400
    /\ \E i \in 1 .. Len(reports) : reports[i].status = "ON_THE_WAY"

\* C9: update_status on a stored report with a valid status answers 200 and
\* changes that report's status and nothing else: its other fields, the other
\* reports and the rest of the state stay, and setting the current status again
\* leaves the store as it was.
C9_UpdateChangesOnlyStatus ==
    [][\A report_id \in ReportIds, new_status \in ValidStatuses :
          (update_status(report_id, JsonBody(new_status)) /\ HasId(reports, report_id)) =>
              /\ response'.code = 200
              /\ response'.body.id = report_id
              /\ response'.body.status = new_status
              /\ Len(reports') = Len(reports)
              /\ \A i \in 1 .. Len(reports) :
                    IF reports[i].id = report_id
                    THEN /\ reports'[i].status = new_status
                         /\ [reports'[i] EXCEPT !.status = reports[i].status] = reports[i]
                    ELSE reports'[i] = reports[i]
              /\ (\A i \in 1 .. Len(reports) :
                     reports[i].id = report_id => reports[i].status = new_status)
                    => reports' = reports
              /\ UNCHANGED <<ngos, uploads, notifications>>]_vars

\* The first of two reports was just set to RESOLVED and the second is not.
C9_Witness ==
    /\ response.op = "update_status"
    /\ response.code = 200
    /\ Len(reports) = 2
    /\ response.body.id = reports[1].id
    /\ response.body.status = "RESOLVED"
    /\ reports[1].status = "RESOLVED"
    /\ reports[2].status = "ON_THE_WAY"
    /\ reports[1].assigned_ngo_id # Null

=============================================================================
